---- MODULE Spec2Model ----
(***************************************************************************)
(* Model of the natural-hazard router of cuantia-server                    *)
(* (src/routers/risk.py): fetch_any, remove_geometry_from_geojson,         *)
(* calculate_risk_level, fetch_all_risks and the api_risk_clean handler,   *)
(* and of the municipal-data cache of src/routers/ine.py                   *)
(* (get_datos_municipio).                                                  *)
(*                                                                         *)
(* Encoding of Python values                                               *)
(*   dict        a function whose domain is the set of its keys (strings)  *)
(*   list        a sequence                                                *)
(*   None        the string None (no modelled message equals it)           *)
(*   non-dict    a JSON value that is not an object is the function        *)
(*               NonDict, recognised by IsDict                             *)
(*   float score the composite score is kept in hundredths (0.40 -> 40,    *)
(*               3.0 -> 300); every product and sum the code can form is a *)
(*               multiple of 0.1 and the IEEE doubles compare with 3.0 and *)
(*               6.0 exactly as the exact values do                        *)
(***************************************************************************)
EXTENDS Integers, Sequences, FiniteSets, TLC

VARIABLES
    pc,          \* api_risk_clean: "fetch", "calc", "respond", "done"; "off": no request
    idx,         \* fetch_all_risks: 1-based position of the next source
    results,     \* fetch_all_risks: the results dict built so far
    risk_level,  \* api_risk_clean: value of calculate_risk_level(raw), 0 before
    composite_score, \* calculate_risk_level: composite_score at its return, in hundredths
    out,         \* api_risk_clean: the response body, EmptyDict before
    baseline,    \* final_risk_level of the request before any outage, 0 before
    urls,        \* fetch_any: its urls argument
    i,           \* fetch_any: 1-based position of the loop over urls
    last_err,    \* fetch_any: last_err
    ret,         \* fetch_any: returned value, EmptyDict before the return
    fpc,         \* fetch_any: "idle", "loop", "returned", "raised"
    ret_site,    \* fetch_any: line of the return statement taken, 0 before
    requested,   \* log of client.get calls of the running fetch_any call
    geo_in,      \* remove_geometry_from_geojson: argument
    geo_out,     \* remove_geometry_from_geojson: returned value
    geo_pc,      \* "idle", "called", "returned"
    clock,       \* ine: the reading of time.time(), in seconds
    ticks,       \* ine: number of clock advances so far
    cache,       \* ine: the module-level cache dict, municipio -> <<ts, data>>
    call_pc,     \* get_datos_municipio, per call: "idle", "series", "datos", "returned"
    call_muni,   \* get_datos_municipio, per call: its municipio argument
    call_now,    \* get_datos_municipio, per call: its local now (line 97)
    call_seen,   \* get_datos_municipio, per call: the entry read on line 99, or NoEntry
    call_ret,    \* get_datos_municipio, per call: the payload returned, NoData before
    completed    \* the calls that executed line 138, in that order

vars == <<pc, idx, results, risk_level, composite_score, out, baseline, urls, i, last_err, ret, fpc,
          ret_site, requested, geo_in, geo_out, geo_pc, clock, ticks, cache, call_pc,
          call_muni, call_now, call_seen, call_ret, completed>>

reqVars == <<pc, idx, results, risk_level, composite_score, out, baseline>>
fetchVars == <<urls, i, last_err, ret, fpc, ret_site, requested>>
geoVars == <<geo_in, geo_out, geo_pc>>
ineVars == <<clock, ticks, cache, call_pc, call_muni, call_now, call_seen, call_ret, completed>>

(***************************************************************************)
(* Bounds                                                                  *)
(***************************************************************************)
MaxUrls == 3
MaxFeatures == 2
MaxCalls == 2
MaxTicks == 3

(***************************************************************************)
(* Python values                                                           *)
(***************************************************************************)
None == "None"
EmptyDict == <<>>
NonDict == [__nondict__ |-> 0]

IsDict(x) == "__nondict__" \notin DOMAIN x

\* dict.get(k, default)
Get(d, k, default) == IF k \in DOMAIN d THEN d[k] ELSE default

\* {**a, **b}: the keys of both, b's value where both have the key
Merge(a, b) == [k \in DOMAIN a \cup DOMAIN b |-> IF k \in DOMAIN b THEN b[k] ELSE a[k]]

\* d[k] = v
Put(d, k, v) == [x \in DOMAIN d \cup {k} |-> IF x = k THEN v ELSE d[x]]

\* truth value of `x or y` on strings and None
Falsy(s) == s = None \/ s = ""

Max(a, b) == IF a >= b THEN a ELSE b

(***************************************************************************)
(* GeoJSON payloads the map services answer with                           *)
(***************************************************************************)
NoDataValue == -9999

Feature(v) == [type |-> "Feature", geometry |-> "Point", properties |-> [value |-> v]]
FeatureNoGeom(v) == [type |-> "Feature", properties |-> [value |-> v]]
FC(feats) == [type |-> "FeatureCollection", features |-> feats]
FC0 == FC(<<>>)
FC1(v) == FC(<<Feature(v)>>)

(***************************************************************************)
(* Outcomes of one client.get(u) followed by raise_for_status()            *)
(***************************************************************************)
TransportError(msg) == [kind |-> "transport_error", msg |-> msg]
Response(status, parses, body, text) ==
    [kind |-> "response", status |-> status, parses |-> parses, body |-> body, text |-> text]
JsonResponse(body) == Response(200, TRUE, body, "json")
TextResponse(text) == Response(200, FALSE, EmptyDict, text)
StatusResponse(status) == Response(status, FALSE, EmptyDict, "")

Is2xx(resp) == resp.kind = "response" /\ resp.status >= 200 /\ resp.status < 300

\* str(e) of the exception raised by client.get or raise_for_status
StrExc(resp) ==
    IF resp.kind = "transport_error" THEN resp.msg
    ELSE IF resp.status >= 500 THEN "Server error" ELSE "Client error"

\* `except Exception as e` (line 85): both exception classes derive from Exception
CaughtOnlyStatus(resp) == resp.kind = "response"
Caught(resp) == resp.kind \in {"transport_error", "response"}

\* lines 80-84: r.json(), or {"raw": r.text} when the body is not JSON
BodyOf(resp) == IF resp.parses THEN resp.body ELSE [raw |-> resp.text]

\* line 87
ErrorValue(err) == [error |-> IF Falsy(err) THEN "unknown error" ELSE err]

(***************************************************************************)
(* The municipal-data cache of src/routers/ine.py                          *)
(***************************************************************************)
\* line 29
CACHE_TTL == 3600

Calls == 1..MaxCalls
Municipios == {"vigo", "lugo"}

\* no entry read, no payload
NoEntry == <<-1, 0>>
NoData == 0

\* the payload built by the fetches of call c (resultados, lines 103-136)
Resultados(c) == c

\* line 100
FreshInclusive(now, ts) == now - ts <= CACHE_TTL
Fresh(now, ts) == now - ts < CACHE_TTL

\* the state of the module after import: empty cache, no call running
IneStart ==
    /\ clock = 0 /\ ticks = 0 /\ cache = EmptyDict
    /\ call_pc = [c \in Calls |-> "idle"]
    /\ call_muni = [c \in Calls |-> ""]
    /\ call_now = [c \in Calls |-> 0]
    /\ call_seen = [c \in Calls |-> NoEntry]
    /\ call_ret = [c \in Calls |-> NoData]
    /\ completed = <<>>

(***************************************************************************)
(* The hazard sources, in the order fetch_all_risks queries them           *)
(***************************************************************************)
Source(key, periodo, url) == [key |-> key, periodo |-> periodo, url |-> url]

Sources == <<
    Source("dominio_publico_maritimo_terrestre", "", "AM.CoastalZoneManagementArea"),
    Source("incendios", "", "Incendios.NZ.HazardArea"),
    Source("inundacion_fluvial", "T10", "NZ.Flood.FluvialT10"),
    Source("inundacion_fluvial", "T100", "NZ.Flood.FluvialT100"),
    Source("inundacion_fluvial", "T500", "NZ.Flood.FluvialT500"),
    Source("inundacion_marina", "T100", "NZ.Flood.MarinaT100"),
    Source("inundacion_marina", "T500", "NZ.Flood.MarinaT500"),
    Source("sismico", "", "HazardArea2002.NCSE-02"),
    Source("desertificacion_potencial", "", "INESErosionPotencial"),
    Source("desertificacion_laminar", "", "INESErosionLaminarRaster") >>

NumSources == Len(Sources)

\* the URLs of the direct calls of fetch_any
TestUrls == {"u1", "u2", "u3"}

\* what a map service may answer to one request
Upstream(u) ==
    CASE u = "AM.CoastalZoneManagementArea" ->
            {StatusResponse(503), JsonResponse(FC0), JsonResponse(FC1(1))}
      [] u = "Incendios.NZ.HazardArea" ->
            {TransportError(""), JsonResponse(FC1(1))}
      [] u = "NZ.Flood.FluvialT10" ->
            {StatusResponse(503), JsonResponse(FC1(1)), JsonResponse(FC1(0)),
             JsonResponse(FC1(NoDataValue))}
      [] u = "NZ.Flood.FluvialT100" ->
            {StatusResponse(503), JsonResponse(FC1(1))}
      [] u = "NZ.Flood.FluvialT500" ->
            {StatusResponse(503), JsonResponse(FC1(1))}
      [] u = "NZ.Flood.MarinaT100" ->
            {StatusResponse(503), JsonResponse(FC0), JsonResponse(FC1(1))}
      [] u = "NZ.Flood.MarinaT500" ->
            {StatusResponse(503), JsonResponse(FC1(1))}
      [] u = "HazardArea2002.NCSE-02" ->
            {TransportError("timed out"), JsonResponse(FC1(1)), JsonResponse(NonDict)}
      [] u = "INESErosionPotencial" ->
            {StatusResponse(404), TextResponse("value=75.5")}
      [] u = "INESErosionLaminarRaster" ->
            {TransportError(""), TextResponse("value=0")}
      [] OTHER ->
            {TransportError(""), TransportError("connect failed"), StatusResponse(503),
             JsonResponse(FC1(1)), JsonResponse(NonDict), TextResponse("value=0")}

(***************************************************************************)
(* remove_geometry_from_geojson (lines 90-102)                             *)
(***************************************************************************)
\* {k: v for k, v in f.items() if k != "geometry"}
StripGeometry(f) == [k \in DOMAIN f \ {"geometry"} |-> f[k]]

\* lines 94-98: the loop over obj.get("features", [])
RECURSIVE StripFeatures(_)
StripFeatures(fs) ==
    IF fs = <<>> THEN <<>>
    ELSE (IF IsDict(Head(fs)) THEN <<StripGeometry(Head(fs))>> ELSE <<>>)
         \o StripFeatures(Tail(fs))

remove_geometry_from_geojson(obj) ==
    IF ~IsDict(obj) THEN obj
    ELSE IF Get(obj, "type", None) = "FeatureCollection"
    THEN [type |-> "FeatureCollection",
          features |-> StripFeatures(Get(obj, "features", <<>>))]
    ELSE IF Get(obj, "type", None) = "Feature" THEN StripGeometry(obj)
    ELSE obj

(***************************************************************************)
(* calculate_risk_level (lines 109-159)                                    *)
(***************************************************************************)
\* lines 15-21, in hundredths
RISK_WEIGHTS ==
    [R1_inundacion |-> 40, R2_dpmt_costas |-> 30, R3_incendios |-> 20, R4_sismico |-> 10]

\* lines 24-28
FLOOD_SCORE_MAP == [T10 |-> 10, T100 |-> 7, T500 |-> 5]

\* isinstance(data, dict) and data.get("features")
HasFeaturesFailClosed(data) ==
    IsDict(data) /\ (Get(data, "features", <<>>) # <<>> \/ "error" \in DOMAIN data)
HasFeaturesTruthyDict(data) == IsDict(data) /\ data # EmptyDict
HasFeatures(data) == IsDict(data) /\ Get(data, "features", <<>>) # <<>>

\* line 121
FloodData(raw_risks) ==
    Merge(Get(raw_risks, "inundacion_fluvial", EmptyDict),
          Get(raw_risks, "inundacion_marina", EmptyDict))

\* lines 123-126: the loop over flood_data.items(), max_flood_score so far
RECURSIVE FloodLoop(_, _, _)
FloodLoop(flood_data, periodos, max_flood_score) ==
    IF periodos = {} THEN max_flood_score
    ELSE LET periodo == CHOOSE p \in periodos : TRUE
             score == Get(FLOOD_SCORE_MAP, periodo, 0)
         IN  FloodLoop(flood_data, periodos \ {periodo},
                       IF HasFeatures(flood_data[periodo])
                       THEN Max(max_flood_score, score) ELSE max_flood_score)

MaxFloodScore(raw_risks) ==
    FloodLoop(FloodData(raw_risks), DOMAIN FloodData(raw_risks), 0)

\* lines 133-134, 139-141, 146-148
ScoreDpmt(raw_risks) ==
    IF HasFeatures(Get(raw_risks, "dominio_publico_maritimo_terrestre", EmptyDict))
    THEN 10 ELSE 0
ScoreIncendioTen(raw_risks) ==
    IF HasFeatures(Get(raw_risks, "incendios", EmptyDict)) THEN 10 ELSE 0
ScoreIncendio(raw_risks) ==
    IF HasFeatures(Get(raw_risks, "incendios", EmptyDict)) THEN 8 ELSE 0
ScoreSismico(raw_risks) ==
    IF HasFeatures(Get(raw_risks, "sismico", EmptyDict)) THEN 5 ELSE 0

\* composite_score after line 149
CompositeScoreWithDesert(raw_risks) ==
      MaxFloodScore(raw_risks) * RISK_WEIGHTS["R1_inundacion"]
    + ScoreDpmt(raw_risks) * RISK_WEIGHTS["R2_dpmt_costas"]
    + ScoreIncendio(raw_risks) * RISK_WEIGHTS["R3_incendios"]
    + ScoreSismico(raw_risks) * RISK_WEIGHTS["R4_sismico"]
    + (IF "raw" \in DOMAIN Get(raw_risks, "desertificacion_potencial", EmptyDict)
       THEN 5 ELSE 0) * RISK_WEIGHTS["R4_sismico"]
CompositeScore(raw_risks) ==
      MaxFloodScore(raw_risks) * RISK_WEIGHTS["R1_inundacion"]
    + ScoreDpmt(raw_risks) * RISK_WEIGHTS["R2_dpmt_costas"]
    + ScoreIncendio(raw_risks) * RISK_WEIGHTS["R3_incendios"]
    + ScoreSismico(raw_risks) * RISK_WEIGHTS["R4_sismico"]

\* lines 154-159
LevelOfSwapped(score) ==
    IF score <= 300 THEN 1
    ELSE IF score <= 600 THEN 3
    ELSE 2
LevelOfStrict(score) ==
    IF score < 300 THEN 1
    ELSE IF score < 600 THEN 2
    ELSE 3
LevelOf(score) ==
    IF score <= 300 THEN 1
    ELSE IF score <= 600 THEN 2
    ELSE 3

calculate_risk_level(raw_risks) == LevelOf(CompositeScore(raw_risks))

(***************************************************************************)
(* fetch_any (lines 74-87)                                                 *)
(***************************************************************************)
\* one iteration of `for u in urls`: the request, then the return or the except
FetchTry ==
    /\ fpc = "loop"
    /\ i <= Len(urls)
    /\ \E resp \in Upstream(urls[i]) :
        /\ requested' = Append(requested, [url |-> urls[i], resp |-> resp])
        /\ IF Is2xx(resp)
           THEN /\ ret' = BodyOf(resp)
                /\ ret_site' = IF resp.parses THEN 81 ELSE 84
                /\ fpc' = "returned"
                /\ UNCHANGED <<i, last_err>>
           ELSE IF Caught(resp)
           THEN /\ last_err' = StrExc(resp)
                /\ i' = i + 1
                /\ UNCHANGED <<ret, ret_site, fpc>>
           ELSE /\ fpc' = "raised"
                /\ UNCHANGED <<i, last_err, ret, ret_site>>
    /\ UNCHANGED <<urls, reqVars, geoVars, ineVars>>

\* the loop is over: return {"error": last_err or "unknown error"}
FetchExhausted ==
    /\ fpc = "loop"
    /\ i > Len(urls)
    /\ ret' = ErrorValue(last_err)
    /\ ret_site' = 87
    /\ fpc' = "returned"
    /\ UNCHANGED <<urls, i, last_err, requested, reqVars, geoVars, ineVars>>

\* the lists of 1..MaxUrls URLs
UrlLists == UNION {[1..n -> TestUrls] : n \in 1..MaxUrls}

InitFetch ==
    /\ pc = "off" /\ idx = 0 /\ results = EmptyDict /\ risk_level = 0
    /\ composite_score = 0 /\ out = EmptyDict /\ baseline = 0
    /\ urls \in UrlLists
    /\ i = 1 /\ last_err = None /\ ret = EmptyDict /\ fpc = "loop" /\ ret_site = 0
    /\ requested = <<>>
    /\ geo_in = EmptyDict /\ geo_out = EmptyDict /\ geo_pc = "idle"
    /\ IneStart

NextFetch == FetchTry \/ FetchExhausted

SpecFetch == InitFetch /\ [][NextFetch]_vars

(***************************************************************************)
(* fetch_all_risks (lines 166-253) and api_risk_clean (lines 260-296)      *)
(***************************************************************************)
\* results[key] = v, or results[key][periodo] = v for a flood family
StoreIn(res, src, v) ==
    IF src.periodo = "" THEN Put(res, src.key, v)
    ELSE Put(res, src.key, Put(res[src.key], src.periodo, v))

\* the next `await fetch_any(client, [url])` is entered; before the first
\* period of a flood family, results[key] = {} (lines 198, 211)
StartFetch ==
    /\ pc = "fetch"
    /\ fpc = "idle"
    /\ idx <= NumSources
    /\ results' = IF Sources[idx].periodo # "" /\ Sources[idx].key \notin DOMAIN results
                  THEN Put(results, Sources[idx].key, EmptyDict)
                  ELSE results
    /\ urls' = <<Sources[idx].url>>
    /\ i' = 1
    /\ last_err' = None
    /\ ret' = EmptyDict
    /\ ret_site' = 0
    /\ requested' = <<>>
    /\ fpc' = "loop"
    /\ UNCHANGED <<pc, idx, risk_level, composite_score, out, baseline, geoVars, ineVars>>

\* the await completes and the value is stored under the source's key
StoreResult ==
    /\ pc = "fetch"
    /\ fpc = "returned"
    /\ results' = StoreIn(results, Sources[idx], ret)
    /\ idx' = idx + 1
    /\ pc' = IF idx = NumSources THEN "calc" ELSE "fetch"
    /\ fpc' = "idle"
    /\ UNCHANGED <<risk_level, composite_score, out, baseline, urls, i, last_err, ret,
                   ret_site, requested, geoVars, ineVars>>

\* line 269
Calculate ==
    /\ pc = "calc"
    /\ composite_score' = CompositeScore(results)
    /\ risk_level' = calculate_risk_level(results)
    /\ baseline' = calculate_risk_level(results)
    /\ pc' = "respond"
    /\ UNCHANGED <<idx, results, out, fetchVars, geoVars, ineVars>>

\* {k: remove_geometry_from_geojson(v) for k, v in d.items()}
StripAll(d) == [k \in DOMAIN d |-> remove_geometry_from_geojson(d[k])]

\* lines 271-292
Body(raw, level) ==
    [lat |-> "lat",
     lon |-> "lon",
     risk_analysis |-> [final_risk_level |-> level, note |-> "Score Ponderado"],
     sin_geometria |->
        [dominio_publico_maritimo_terrestre |->
            remove_geometry_from_geojson(
                Get(raw, "dominio_publico_maritimo_terrestre", EmptyDict)),
         incendios |-> remove_geometry_from_geojson(Get(raw, "incendios", EmptyDict)),
         inundacion_fluvial |-> StripAll(Get(raw, "inundacion_fluvial", EmptyDict)),
         inundacion_marina |-> StripAll(Get(raw, "inundacion_marina", EmptyDict)),
         sismico |-> remove_geometry_from_geojson(Get(raw, "sismico", EmptyDict)),
         desertificacion_potencial |-> Get(raw, "desertificacion_potencial", EmptyDict),
         desertificacion_laminar |-> Get(raw, "desertificacion_laminar", EmptyDict)]]

\* line 294
Respond ==
    /\ pc = "respond"
    /\ out' = Body(results, risk_level)
    /\ pc' = "done"
    /\ UNCHANGED <<idx, results, risk_level, composite_score, baseline, fetchVars, geoVars, ineVars>>

Init ==
    /\ pc = "fetch" /\ idx = 1 /\ results = EmptyDict /\ risk_level = 0
    /\ composite_score = 0 /\ out = EmptyDict /\ baseline = 0
    /\ urls = <<>> /\ i = 1 /\ last_err = None /\ ret = EmptyDict /\ fpc = "idle"
    /\ ret_site = 0 /\ requested = <<>>
    /\ geo_in = EmptyDict /\ geo_out = EmptyDict /\ geo_pc = "idle"
    /\ IneStart

Next == StartFetch \/ FetchTry \/ FetchExhausted \/ StoreResult \/ Calculate \/ Respond

Spec == Init /\ [][Next]_vars

(***************************************************************************)
(* The same request served again while one more source is down             *)
(***************************************************************************)
\* fetch_all_risks returns the same results except that the fetch of source
\* k now fails; calculate_risk_level and the body are computed as before
OutageRequest ==
    /\ pc = "done"
    /\ \E k \in 1..NumSources :
         \E resp \in {r \in Upstream(Sources[k].url) : ~Is2xx(r)} :
            /\ results' = StoreIn(results, Sources[k], ErrorValue(StrExc(resp)))
            /\ composite_score' = CompositeScore(results')
            /\ risk_level' = calculate_risk_level(results')
            /\ out' = Body(results', risk_level')
    /\ UNCHANGED <<pc, idx, baseline, fetchVars, geoVars, ineVars>>

NextOutage == Next \/ OutageRequest

SpecOutage == Init /\ [][NextOutage]_vars

(***************************************************************************)
(* Direct calls of remove_geometry_from_geojson                            *)
(***************************************************************************)
FeatureWithId(v) ==
    [type |-> "Feature", id |-> "f1", geometry |-> "Point", properties |-> [value |-> v]]

GeoFeatures == {Feature(1), Feature(0), FeatureNoGeom(1), FeatureWithId(1), NonDict}

\* the keys a map server adds next to "type" and "features"
GeoExtras == {EmptyDict, [totalFeatures |-> 1], [crs |-> "EPSG:4326"],
              [totalFeatures |-> 1, crs |-> "EPSG:4326"]}

GeoFeatureLists == UNION {[1..n -> GeoFeatures] : n \in 0..MaxFeatures}

GeoInputs ==
    {Merge(FC(fs), extra) : fs \in GeoFeatureLists, extra \in GeoExtras}
    \cup {Merge([type |-> "FeatureCollection"], extra) : extra \in GeoExtras}
    \cup {Feature(1), FeatureNoGeom(1), FeatureWithId(0)}
    \cup {[error |-> "Server error"], [raw |-> "value=0"], NonDict, EmptyDict}

RemoveGeometryCall ==
    /\ geo_pc = "idle"
    /\ \E obj \in GeoInputs :
        /\ geo_in' = obj
        /\ geo_out' = remove_geometry_from_geojson(obj)
    /\ geo_pc' = "returned"
    /\ UNCHANGED <<reqVars, fetchVars, ineVars>>

InitGeo ==
    /\ pc = "off" /\ idx = 0 /\ results = EmptyDict /\ risk_level = 0
    /\ composite_score = 0 /\ out = EmptyDict /\ baseline = 0
    /\ urls = <<>> /\ i = 1 /\ last_err = None /\ ret = EmptyDict /\ fpc = "idle"
    /\ ret_site = 0 /\ requested = <<>>
    /\ geo_in = EmptyDict /\ geo_out = EmptyDict /\ geo_pc = "idle"
    /\ IneStart

NextGeo == RemoveGeometryCall

SpecGeo == InitGeo /\ [][NextGeo]_vars

(***************************************************************************)
(* Vocabulary of the properties                                            *)
(***************************************************************************)
\* the value stored for a source in a results dict
ResultOf(res, src) ==
    IF src.periodo = "" THEN res[src.key] ELSE res[src.key][src.periodo]

SourceIds == 1..NumSources
FloodIds == {k \in SourceIds : Sources[k].periodo # ""}

IsErrorValue(r) == IsDict(r) /\ DOMAIN r = {"error"}

\* the response has at least one feature
Triggers(r) == IsDict(r) /\ "features" \in DOMAIN r /\ Len(r["features"]) >= 1

Computed == pc \in {"respond", "done"}

AllSourcesFailed == \A k \in SourceIds : IsErrorValue(ResultOf(results, Sources[k]))

HazardKeys ==
    {"dominio_publico_maritimo_terrestre", "incendios", "inundacion_fluvial",
     "inundacion_marina", "sismico", "desertificacion_potencial",
     "desertificacion_laminar"}

\* a success body of GET /risk/api/risk_clean with every hazard key
WellFormed(body) ==
    /\ DOMAIN body = {"lat", "lon", "risk_analysis", "sin_geometria"}
    /\ "final_risk_level" \in DOMAIN body["risk_analysis"]
    /\ DOMAIN body["sin_geometria"] = HazardKeys
    /\ DOMAIN body["sin_geometria"]["inundacion_fluvial"] = {"T10", "T100", "T500"}
    /\ DOMAIN body["sin_geometria"]["inundacion_marina"] = {"T100", "T500"}

(***************************************************************************)
(* C1: when every one of the 10 source fetches returned an error value,    *)
(* the handler still answers a well-formed success body (lat, lon,         *)
(* risk_analysis, sin_geometria with every hazard key) and                 *)
(* final_risk_level is 1.                                                  *)
(***************************************************************************)
C1_AllFailedLevelOne ==
    (pc = "done" /\ AllSourcesFailed) =>
        /\ WellFormed(out)
        /\ out["risk_analysis"]["final_risk_level"] = 1
        /\ \A k \in SourceIds :
              IsErrorValue(ResultOf(out["sin_geometria"], Sources[k]))

C1_Witness == pc = "done" /\ AllSourcesFailed /\ WellFormed(out)

(***************************************************************************)
(* C2: for every combination of raw results the composite score is in      *)
(* [0, 10], the level is 1, 2 or 3, and the level never decreases when the *)
(* score increases: no score below the computed one gets a higher level    *)
(* and no score above it gets a lower one.                                 *)
(***************************************************************************)
C2_ScoreAndLevelRange ==
    Computed =>
        /\ composite_score \in 0..1000
        /\ risk_level \in {1, 2, 3}
        /\ \A s \in 0..1000 :
              /\ s <= composite_score => LevelOf(s) <= risk_level
              /\ s >= composite_score => LevelOf(s) >= risk_level

C2_Witness == pc = "done" /\ composite_score = 910 /\ risk_level = 3

(***************************************************************************)
(* C3: the level is 1 when score <= 3.0, 2 when 3.0 < score <= 6.0 and 3   *)
(* when score > 6.0; when only the DPMT result has a feature the score is  *)
(* exactly 3.0 and the level is 1.                                         *)
(***************************************************************************)
OnlyDpmtTriggers ==
    \A k \in SourceIds :
        Triggers(ResultOf(results, Sources[k]))
            <=> Sources[k].key = "dominio_publico_maritimo_terrestre"

C3_LevelBands ==
    Computed =>
        /\ composite_score <= 300 => risk_level = 1
        /\ (composite_score > 300 /\ composite_score <= 600) => risk_level = 2
        /\ composite_score > 600 => risk_level = 3
        /\ OnlyDpmtTriggers => (composite_score = 300 /\ risk_level = 1)

C3_Witness == pc = "done" /\ OnlyDpmtTriggers /\ composite_score = 300

(***************************************************************************)
(* C4: the composite score is floodPoints*0.40 + coastalPoints*0.30 +      *)
(* firePoints*0.20 + seismicPoints*0.10 with coastalPoints 10, firePoints  *)
(* 8 and seismicPoints 5 when the respective result has a feature, else 0; *)
(* a 10-year flood alone gives 4.0 and level 2, fire plus seismic alone    *)
(* give 2.1 and level 1.                                                   *)
(***************************************************************************)
Points(key, pts) == IF Triggers(results[key]) THEN pts ELSE 0

TriggeringKeys ==
    {<<Sources[k].key, Sources[k].periodo>> :
        k \in {j \in SourceIds : Triggers(ResultOf(results, Sources[j]))}}

C4_WeightedSum ==
    Computed =>
        /\ composite_score =
                MaxFloodScore(results) * 40
              + Points("dominio_publico_maritimo_terrestre", 10) * 30
              + Points("incendios", 8) * 20
              + Points("sismico", 5) * 10
        /\ MaxFloodScore(results) \in {0, 5, 7, 10}
        /\ TriggeringKeys = {<<"inundacion_fluvial", "T10">>}
              => (composite_score = 400 /\ risk_level = 2)
        /\ TriggeringKeys = {<<"incendios", "">>, <<"sismico", "">>}
              => (composite_score = 210 /\ risk_level = 1)

C4_Witness ==
    /\ pc = "done"
    /\ TriggeringKeys = {<<"incendios", "">>, <<"sismico", "">>}
    /\ composite_score = 210

(***************************************************************************)
(* C5: the flood point value is the maximum, over fluvial T10, T100, T500  *)
(* and marine T100, T500, of the table score of each period whose result   *)
(* triggers; a triggering fluvial T100 or T500 counts whatever the marine  *)
(* result for the same period is.                                          *)
(***************************************************************************)
TableScore(periodo) ==
    IF periodo = "T10" THEN 10 ELSE IF periodo = "T100" THEN 7 ELSE 5

\* the greatest table score among the triggering flood results, 0 if none
MaxOverBothFamilies ==
    LET scores == {TableScore(Sources[k].periodo) :
                      k \in {j \in FloodIds : Triggers(ResultOf(results, Sources[j]))}}
    IN  IF scores = {} THEN 0 ELSE CHOOSE m \in scores : \A x \in scores : x <= m

C5_FloodMaxOverBothFamilies ==
    Computed => MaxFloodScore(results) = MaxOverBothFamilies

(***************************************************************************)
(* C6: a flood period contributes its table score only if its signal is    *)
(* flooded: when no period's signal is flooded (first feature's sample     *)
(* value zero or the no-data sentinel, or no feature at all) the flood     *)
(* points are 0.                                                           *)
(***************************************************************************)
\* the flood normalizer of the specification (section 4.3)
FloodSignal(r) ==
    IF ~Triggers(r) THEN "no_data"
    ELSE LET v == r["features"][1]["properties"]["value"]
         IN  IF v <= NoDataValue THEN "no_data"
             ELSE IF v = 0 THEN "not_flooded"
             ELSE "flooded"

NoPeriodFlooded ==
    \A k \in FloodIds : FloodSignal(ResultOf(results, Sources[k])) # "flooded"

C6_OnlyFloodedScores ==
    (Computed /\ NoPeriodFlooded) => MaxFloodScore(results) = 0

(***************************************************************************)
(* C8: every source's request has been started before any of them is      *)
(* awaited.                                                                *)
(***************************************************************************)
\* the request of source k has been issued
Started(k) == k < idx \/ (k = idx /\ pc = "fetch" /\ requested # <<>>)
\* the await of source k's fetch_any has completed
Awaited(k) == k < idx

C8_AllStartedBeforeAnyAwaited ==
    (pc # "off" /\ \E k \in SourceIds : Awaited(k)) => \A k \in SourceIds : Started(k)

(***************************************************************************)
(* C9: for any subset of hazard sources, replacing their raw results by    *)
(* fetch errors never makes final_risk_level higher than with the original *)
(* results, and the request still returns a well-formed classification.    *)
(***************************************************************************)
C9_OutageNeverRaisesLevel ==
    pc = "done" =>
        /\ risk_level <= baseline
        /\ risk_level \in {1, 2, 3}
        /\ WellFormed(out)
        /\ out["risk_analysis"]["final_risk_level"] = risk_level

\* a request classified 3 that outages of some sources have brought down to 1
C9_Witness ==
    /\ pc = "done"
    /\ baseline = 3
    /\ risk_level = 1
    /\ ~AllSourcesFailed

(***************************************************************************)
(* C7: fetch_any requests its URLs strictly in list order and never        *)
(* raises; it returns the result of the first URL answering 2xx (the       *)
(* parsed JSON body, or {"raw": text} when the body is not JSON) without   *)
(* requesting any later URL; a transport or status error makes it go on to *)
(* the next URL; it returns an error value if and only if every URL        *)
(* failed, and that value carries the message of the last failed URL, or   *)
(* "unknown error" when that message is the empty string.                  *)
(***************************************************************************)
Failed(k) == ~Is2xx(requested[k].resp)
NumRequested == Len(requested)
LastMessage == StrExc(requested[NumRequested].resp)

C7_InListOrder ==
    /\ NumRequested <= Len(urls)
    /\ \A k \in 1..NumRequested : requested[k].url = urls[k]
    /\ \A k \in 1..(NumRequested - 1) : Failed(k)

C7_FirstSuccessReturned ==
    (NumRequested >= 1 /\ ~Failed(NumRequested)) =>
        LET resp == requested[NumRequested].resp
        IN  /\ fpc = "returned"
            /\ ret_site \in {81, 84}
            /\ ret = IF resp.parses THEN resp.body ELSE [raw |-> resp.text]

C7_ErrorIffAllFailed ==
    /\ fpc # "raised"
    /\ (fpc = "loop") => (NumRequested = i - 1 /\ \A k \in 1..NumRequested : Failed(k))
    /\ (fpc = "returned") =>
          (ret_site = 87 <=>
              (NumRequested = Len(urls) /\ \A k \in 1..NumRequested : Failed(k)))

C7_FetchAnyAmended ==
    pc = "off" =>
        /\ C7_InListOrder
        /\ C7_FirstSuccessReturned
        /\ C7_ErrorIffAllFailed
        /\ ret_site = 87 =>
              ret = [error |-> IF LastMessage = "" THEN "unknown error" ELSE LastMessage]

\* the original statement: the error value always carries the last message
C7_FetchAnyOriginal ==
    pc = "off" =>
        /\ C7_InListOrder
        /\ C7_FirstSuccessReturned
        /\ C7_ErrorIffAllFailed
        /\ ret_site = 87 => ret = [error |-> LastMessage]

\* every URL of a list of two or more failed, the last with another message
C7_Witness ==
    /\ pc = "off"
    /\ ret_site = 87
    /\ NumRequested >= 2
    /\ StrExc(requested[1].resp) # LastMessage
    /\ ret = [error |-> LastMessage]

(***************************************************************************)
(* C10: remove_geometry_from_geojson applied to a FeatureCollection or a   *)
(* Feature returns an output in which no feature has a geometry key, every *)
(* other key of each feature and of the enclosing object is present with   *)
(* its value unchanged, and no feature is dropped.                         *)
(***************************************************************************)
IsFeatureCollection(o) ==
    /\ IsDict(o)
    /\ Get(o, "type", None) = "FeatureCollection"
    /\ "features" \in DOMAIN o
    /\ \A k \in 1..Len(o["features"]) : IsDict(o["features"][k])

IsFeature(o) == IsDict(o) /\ Get(o, "type", None) = "Feature"

\* b is a without its geometry key
SameButGeometry(a, b) ==
    /\ DOMAIN b = DOMAIN a \ {"geometry"}
    /\ \A k \in DOMAIN b : b[k] = a[k]

C10_GeometryStrippedOthersKept ==
    geo_pc = "returned" =>
        /\ IsFeature(geo_in) => SameButGeometry(geo_in, geo_out)
        /\ IsFeatureCollection(geo_in) =>
              /\ DOMAIN geo_out = DOMAIN geo_in
              /\ \A k \in DOMAIN geo_in \ {"features"} : geo_out[k] = geo_in[k]
              /\ Len(geo_out["features"]) = Len(geo_in["features"])
              /\ \A k \in 1..Len(geo_in["features"]) :
                    SameButGeometry(geo_in["features"][k], geo_out["features"][k])

(***************************************************************************)
(* C11: desertification is informational only: two sets of raw results     *)
(* that differ only in desertificacion_potencial and                       *)
(* desertificacion_laminar get the same final_risk_level, and both         *)
(* desertification results are present, as fetched, in sin_geometria.      *)
(***************************************************************************)
\* raw results a desertification fetch may return
DesertResults ==
    {ErrorValue("Client error"), ErrorValue(""), [raw |-> "value=75.5"],
     [raw |-> "value=0"], FC1(1), NonDict}

\* res with the two desertification results replaced
WithDesert(res, pot, lam) ==
    Put(Put(res, "desertificacion_potencial", pot), "desertificacion_laminar", lam)

C11_DesertificationInformational ==
    pc = "done" =>
        /\ out["sin_geometria"]["desertificacion_potencial"]
              = results["desertificacion_potencial"]
        /\ out["sin_geometria"]["desertificacion_laminar"]
              = results["desertificacion_laminar"]
        /\ \A pot \in DesertResults : \A lam \in DesertResults :
              LET other == WithDesert(results, pot, lam)
                  body == Body(other, calculate_risk_level(other))
              IN  /\ calculate_risk_level(other) = risk_level
                  /\ body["risk_analysis"]["final_risk_level"]
                        = out["risk_analysis"]["final_risk_level"]
                  /\ body["sin_geometria"]["desertificacion_potencial"] = pot
                  /\ body["sin_geometria"]["desertificacion_laminar"] = lam

\* a request classified 3 whose two desertification fetches ended differently
C11_Witness ==
    /\ pc = "done"
    /\ risk_level = 3
    /\ "raw" \in DOMAIN out["sin_geometria"]["desertificacion_potencial"]
    /\ "error" \in DOMAIN out["sin_geometria"]["desertificacion_laminar"]

(***************************************************************************)
(* get_datos_municipio (src/routers/ine.py, lines 95-139)                  *)
(***************************************************************************)
\* time passes: by a second, or by a second less than the TTL
TickSteps == {1, CACHE_TTL - 1}

Tick ==
    /\ ticks < MaxTicks
    /\ \E d \in TickSteps : clock' = clock + d
    /\ ticks' = ticks + 1
    /\ UNCHANGED <<cache, call_pc, call_muni, call_now, call_seen, call_ret, completed,
                   reqVars, fetchVars, geoVars>>

\* lines 97-109: now = time.time(); a fresh entry is returned, otherwise the
\* series tasks are created and the call suspends in asyncio.gather
CallBegin(c) ==
    /\ call_pc[c] = "idle"
    /\ \E m \in Municipios :
        /\ call_muni' = [call_muni EXCEPT ![c] = m]
        /\ call_now' = [call_now EXCEPT ![c] = clock]
        /\ call_seen' = [call_seen EXCEPT ![c] = Get(cache, m, NoEntry)]
        /\ IF m \in DOMAIN cache /\ Fresh(clock, cache[m][1])
           THEN /\ call_ret' = [call_ret EXCEPT ![c] = cache[m][2]]
                /\ call_pc' = [call_pc EXCEPT ![c] = "returned"]
           ELSE /\ call_pc' = [call_pc EXCEPT ![c] = "series"]
                /\ UNCHANGED call_ret
    /\ UNCHANGED <<clock, ticks, cache, completed, reqVars, fetchVars, geoVars>>

\* line 109 resumes: the series of every table (or its exception) are in
CallSeriesDone(c) ==
    /\ call_pc[c] = "series"
    /\ call_pc' = [call_pc EXCEPT ![c] = "datos"]
    /\ UNCHANGED <<clock, ticks, cache, call_muni, call_now, call_seen, call_ret, completed,
                   reqVars, fetchVars, geoVars>>

\* lines 112-139: the last get_datos_serie resumes, the entry is written
\* with the call's own now, and resultados is returned
CallComplete(c) ==
    /\ call_pc[c] = "datos"
    /\ cache' = Put(cache, call_muni[c], <<call_now[c], Resultados(c)>>)
    /\ call_ret' = [call_ret EXCEPT ![c] = Resultados(c)]
    /\ call_pc' = [call_pc EXCEPT ![c] = "returned"]
    /\ completed' = Append(completed, c)
    /\ UNCHANGED <<clock, ticks, call_muni, call_now, call_seen, reqVars, fetchVars, geoVars>>

InitIne ==
    /\ pc = "off" /\ idx = 0 /\ results = EmptyDict /\ risk_level = 0
    /\ composite_score = 0 /\ out = EmptyDict /\ baseline = 0
    /\ urls = <<>> /\ i = 1 /\ last_err = None /\ ret = EmptyDict /\ fpc = "idle"
    /\ ret_site = 0 /\ requested = <<>>
    /\ geo_in = EmptyDict /\ geo_out = EmptyDict /\ geo_pc = "idle"
    /\ IneStart

NextIne ==
    \/ Tick
    \/ \E c \in Calls : CallBegin(c) \/ CallSeriesDone(c) \/ CallComplete(c)

SpecIne == InitIne /\ [][NextIne]_vars

(***************************************************************************)
(* C12: for any interleaving of concurrent get_datos_municipio calls:      *)
(* each call that finds no cache entry younger than CACHE_TTL performs its *)
(* own fetch and on completion overwrites cache[municipio], so the entry   *)
(* left for a municipality is the one written by the call for it that      *)
(* completed last; and no call returns a cached payload whose stored       *)
(* timestamp is CACHE_TTL seconds or more older than the call's own start. *)
(***************************************************************************)
HasCompleted(c) == \E k \in 1..Len(completed) : completed[k] = c

\* call c found no entry younger than CACHE_TTL when it started
FoundNoFreshEntry(c) ==
    call_seen[c] = NoEntry \/ call_now[c] - call_seen[c][1] >= CACHE_TTL

\* the positions in completed of the calls for municipality m
WritesOf(m) == {k \in 1..Len(completed) : call_muni[completed[k]] = m}

LastWriterOf(m) == completed[CHOOSE k \in WritesOf(m) : \A j \in WritesOf(m) : j <= k]

C12_OwnFetch ==
    \A c \in Calls :
        /\ (call_pc[c] # "idle" /\ FoundNoFreshEntry(c)) =>
              \/ call_pc[c] \in {"series", "datos"} /\ ~HasCompleted(c)
              \/ /\ call_pc[c] = "returned"
                 /\ Cardinality({k \in 1..Len(completed) : completed[k] = c}) = 1
                 /\ call_ret[c] = Resultados(c)
        /\ (call_pc[c] # "idle" /\ ~FoundNoFreshEntry(c)) =>
              call_pc[c] = "returned" /\ ~HasCompleted(c)

C12_LastWriterWins ==
    /\ DOMAIN cache = {m \in Municipios : WritesOf(m) # {}}
    /\ \A m \in DOMAIN cache :
          cache[m] = <<call_now[LastWriterOf(m)], Resultados(LastWriterOf(m))>>

C12_NoStaleHit ==
    \A c \in Calls :
        (call_pc[c] = "returned" /\ ~HasCompleted(c)) =>
            /\ call_seen[c] # NoEntry
            /\ call_ret[c] = call_seen[c][2]
            /\ call_now[c] - call_seen[c][1] < CACHE_TTL

C12_CacheLastWriterWins == C12_OwnFetch /\ C12_LastWriterWins /\ C12_NoStaleHit

\* two concurrent calls for one municipality both fetched; the one that
\* started first completed last, and its entry is the one left
C12_Witness ==
    \E a \in Calls : \E b \in Calls :
        /\ completed = <<b, a>>
        /\ call_muni[a] = call_muni[b]
        /\ call_now[a] < call_now[b]
        /\ cache[call_muni[a]] = <<call_now[a], Resultados(a)>>

====
